---- MODULE Spec2Model ----
(***************************************************************************)
(* The asynchronous job engine of backend/flask_app.py: the job store and  *)
(* its lock, generate_async, the worker process_video_job with the process *)
(* runner run_ffmpeg_with_progress, and the pollers job_status/job_output. *)
(*                                                                         *)
(* Units.  Media times (start, end, durations, time= markers) are integers *)
(* counting tenths of a second: 0.1 s is 1, 1.0 s is 10, 60.0 s is 600.    *)
(* Percentages and eta are exact rationals [n, d] in lowest terms, so that *)
(* the thresholds 0.5, 99.9 and 100.0 are compared exactly.                *)
(* An optional value (Python None or a value) is a sequence of length <= 1.*)
(***************************************************************************)
EXTENDS Integers, Sequences, FiniteSets, TLC

(* ------------------------------ bounds -------------------------------- *)

\* number of job ids uuid4 can hand out in one run
MaxJobs == 2

(* ----------------------------- rationals ------------------------------ *)

RECURSIVE Gcd(_, _)
Gcd(a, b) == IF b = 0 THEN a ELSE Gcd(b, a % b)

Abs(x) == IF x < 0 THEN -x ELSE x

\* the rational n/d (d > 0) in lowest terms
Rat(n, d) == LET g == Gcd(Abs(n), d) IN [n |-> n \div g, d |-> d \div g]

RLess(a, b) == a.n * b.d < b.n * a.d

\* Python's max(a, b) and min(a, b): the first argument unless the second
\* is strictly greater (smaller)
PyMax(a, b) == IF RLess(a, b) THEN b ELSE a
PyMin(a, b) == IF RLess(b, a) THEN b ELSE a

IntMax(a, b) == IF b > a THEN b ELSE a
IntMin(a, b) == IF b < a THEN b ELSE a

Zero == Rat(0, 1)
Half == Rat(5, 10)
\* variant: progress capped at 100.0 instead of 99.9
CapAtHundred == Rat(100, 1)

Cap == Rat(999, 10)
Hundred == Rat(100, 1)

None == << >>
Some(x) == << x >>

(* ------------------------------- state -------------------------------- *)

VARIABLES
    job_store,       \* job id -> record; its domain is the set of known ids
    job_store_lock,  \* the set of threads inside "with job_store_lock"
    pc,              \* per job id: where its submission / worker thread is
    params,          \* per job id: the params dict handed to the thread
    loc,             \* per job id: the worker's local variables
    trace,           \* per job id: external steps launched, with outcome
    resp             \* the response of the request served by the last step

vars == << job_store, job_store_lock, pc, params, loc, trace, resp >>

JobIds == 1 .. MaxJobs

\* ids a client may poll with: 0 is an id generate_async never hands out
PollIds == 0 .. MaxJobs

\* threading.Lock(): free when nobody is inside a "with" block
LockFree == job_store_lock = {}

Known == DOMAIN job_store

(* --------------------------- request forms ---------------------------- *)

\* a form field: not sent, sent empty, sent as non-numeric text, or sent as
\* a decimal number (v, in tenths of a second)
Absent == [kind |-> "absent", v |-> 0]
Empty == [kind |-> "empty", v |-> 0]
Text == [kind |-> "text", v |-> 0]
Num(v) == [kind |-> "num", v |-> v]

\* Python truthiness of a form value: None and "" are false
Truthy(x) == x.kind \in {"text", "num"}

\* float(x): the number, or ValueError on "" and on non-numeric text
FloatOk(x) == x.kind = "num"

Form(s, e, f, b) == [start |-> s, end |-> e, format |-> f, bounce |-> b]

\* the requests of the concurrent specification
SmallForms ==
    { Form(Absent, Absent, "gif", TRUE),
      Form(Num(0), Num(20), "mp4", FALSE),
      Form(Text, Absent, "gif", FALSE) }

\* the requests of the single-job specification
RichForms ==
    { Form(s, e, "gif", FALSE) :
        s \in {Absent, Empty, Num(0), Num(5), Num(20), Num(700)},
        e \in {Absent, Empty, Text, Num(0), Num(5), Num(20), Num(900)} }
    \cup SmallForms

\* durations ffprobe may print
SmallProbes == {20}
RichProbes == {0, 5, 30, 800}

(* ----------------------------- job records ---------------------------- *)

UploadDir(j) == << "upload_", j >>
JobDir(j) == << "job_", j >>

QueuedRecord(j) ==
    [status |-> "queued", progress |-> Zero, eta |-> None,
     output |-> None, error |-> None, tmpdir |-> UploadDir(j)]

\* the encoder process of a worker: not launched (or reaped), running, or
\* exited with a code
NoProc == << >>
Running == << "running" >>
Exited(rc) == << "exited", rc >>

\* the locals of a worker; proc is the process it launched with Popen, and
\* dropped records that the last thing that happened in the run was the
\* worker dropping a line
DeadLoc ==
    [start |-> 0, end |-> None, fmt |-> "gif", bounce |-> FALSE,
     total_dur |-> 0, seg_len |-> 0, pct |-> Zero, eta |-> None,
     rc |-> 0, exc |-> None, proc |-> NoProc, dropped |-> FALSE]

NoResp == [op |-> "none"]

Init ==
    /\ job_store = [j \in {} |-> QueuedRecord(j)]
    /\ job_store_lock = {}
    /\ pc = [j \in JobIds |-> "unborn"]
    /\ params = [j \in JobIds |-> Form(Absent, Absent, "gif", FALSE)]
    /\ loc = [j \in JobIds |-> DeadLoc]
    /\ trace = [j \in JobIds |-> << >>]
    /\ resp = NoResp

Goto(j, label) == pc' = [pc EXCEPT ![j] = label]

\* variant: all ids share one record object, a write reaches every job
StoreShared(j, field, value) ==
    job_store' = [k \in Known |-> [job_store[k] EXCEPT ![field] = value]]

Store(j, field, value) == job_store' = [job_store EXCEPT ![j][field] = value]

Ran(j, step, ok) == trace' = [trace EXCEPT ![j] = Append(@, [step |-> step, ok |-> ok])]

\* raise: control passes to the handler of line 172 with the message str(e)
Raise(j, msg) ==
    /\ loc' = [loc EXCEPT ![j].exc = Some(msg)]
    /\ Goto(j, "except")

(* --------------------------- generate_async --------------------------- *)

\* lines 289-298: a fresh id, and the queued record stored under the lock
GenerateAsyncCreate(j, form) ==
    /\ pc[j] = "unborn"
    /\ j \notin Known
    /\ LockFree
    /\ job_store' = (j :> QueuedRecord(j)) @@ job_store
    /\ params' = [params EXCEPT ![j] = form]
    /\ Goto(j, "created")
    /\ resp' = NoResp
    /\ UNCHANGED << job_store_lock, loc, trace >>

\* lines 300-304: the worker thread is started and 202 returned
GenerateAsyncStart(j) ==
    /\ pc[j] = "created"
    /\ Goto(j, "start")
    /\ resp' = [op |-> "generate_async", id |-> j, code |-> 202]
    /\ UNCHANGED << job_store, job_store_lock, params, loc, trace >>

(* -------------------------- process_video_job ------------------------- *)

\* variant: the worker never marks the job as running
RunningStatusForgotten == "queued"

\* what the worker writes to status at line 65
RunningStatus == "running"

\* line 64-65: the lock is taken and status set
MarkRunning(j) ==
    /\ pc[j] = "start"
    /\ LockFree
    /\ job_store_lock' = {j}
    /\ Store(j, "status", RunningStatus)
    /\ Goto(j, "reset_progress")
    /\ resp' = NoResp
    /\ UNCHANGED << params, loc, trace >>

\* line 66
ResetProgress(j) ==
    /\ pc[j] = "reset_progress"
    /\ Store(j, "progress", Zero)
    /\ Goto(j, "reset_eta")
    /\ resp' = NoResp
    /\ UNCHANGED << job_store_lock, params, loc, trace >>

\* line 67, and the lock released
ResetEta(j) ==
    /\ pc[j] = "reset_eta"
    /\ Store(j, "eta", None)
    /\ job_store_lock' = {}
    /\ Goto(j, "parse")
    /\ resp' = NoResp
    /\ UNCHANGED << params, loc, trace >>

\* the message of the ValueError float() raises
ValueErrorMsg == "could not convert string to float"

\* lines 70-80: the params are read; float() of start, and of a truthy end,
\* raises on text that is no number
\* (fps, width, speed and loops are parsed the same way, raise the same
\* ValueError and never reach the job record)
ParseParams(j) ==
    LET p == params[j]
        start_ok == p.start.kind = "absent" \/ FloatOk(p.start)
        end_ok == ~Truthy(p.end) \/ FloatOk(p.end)
    IN
    /\ pc[j] = "parse"
    /\ IF start_ok /\ end_ok
       THEN /\ loc' = [loc EXCEPT ![j].start = p.start.v,
                                  ![j].end = IF Truthy(p.end) THEN Some(p.end.v) ELSE None,
                                  ![j].fmt = p.format,
                                  ![j].bounce = p.bounce]
            /\ Goto(j, "probe")
       ELSE Raise(j, ValueErrorMsg)
    /\ resp' = NoResp
    /\ UNCHANGED << job_store, job_store_lock, params, trace >>

\* line 92
FallbackDuration == 600

\* variant: a failed probe is raised like any other failure
ProbeFailedRaises(j) == Raise(j, "ffprobe failed")

\* the duration the worker continues with when the probe fails (lines 91-92)
ProbeFailed(j) ==
    /\ loc' = [loc EXCEPT ![j].total_dur = FallbackDuration]
    /\ Goto(j, "segment")

\* lines 82-92: ffprobe prints a duration, or anything else goes wrong
ProbeDuration(j, durations) ==
    /\ pc[j] = "probe"
    /\ \/ \E d \in durations :
            /\ loc' = [loc EXCEPT ![j].total_dur = d]
            /\ Goto(j, "segment")
            /\ Ran(j, "probe", TRUE)
       \/ /\ ProbeFailed(j)
          /\ Ran(j, "probe", FALSE)
    /\ resp' = NoResp
    /\ UNCHANGED << job_store, job_store_lock, params >>

\* line 99
MinSegLen == 1

\* variant: the requested end is not clamped to the duration
SegLenUnclamped(start, end, total_dur) ==
    LET end_time == IF end = None THEN total_dur ELSE end[1]
    IN IntMax(MinSegLen, end_time - start)

\* lines 95-99
SegLen(start, end, total_dur) ==
    LET end_time == IF end = None THEN total_dur ELSE IntMin(end[1], total_dur)
    IN IntMax(MinSegLen, end_time - start)

\* lines 94-104: the segment, the job's directory and the file names
Segment(j) ==
    /\ pc[j] = "segment"
    /\ loc' = [loc EXCEPT ![j].seg_len = SegLen(loc[j].start, loc[j].end, loc[j].total_dur)]
    /\ Goto(j, "recode")
    /\ resp' = NoResp
    /\ UNCHANGED << job_store, job_store_lock, params, trace >>

\* what subprocess.run(check=True) can do: return, raise CalledProcessError
\* on a non-zero exit, or raise FileNotFoundError when there is no program
Outcomes == {"ok", "nonzero", "nolaunch"}

CalledProcessErrorMsg == "Command returned non-zero exit status 1."
FileNotFoundMsg == "[Errno 2] No such file or directory"

OutcomeMsg(o) == IF o = "nonzero" THEN CalledProcessErrorMsg ELSE FileNotFoundMsg

\* variant: the step is run without check=True
RequiredUnchecked(j, o, next) ==
    /\ Goto(j, next)
    /\ loc' = [loc EXCEPT ![j].start = 0, ![j].end = None, ![j].total_dur = 0]

\* a required step run with check=True: its failure is raised (lines 118, 139)
Required(j, o, next) ==
    IF o = "ok"
    THEN /\ Goto(j, next)
         /\ loc' = [loc EXCEPT ![j].start = 0, ![j].end = None, ![j].total_dur = 0]
    ELSE Raise(j, OutcomeMsg(o))

\* lines 106-121: the segment is re-encoded; start, end and total_dur are
\* not read after this step
Recode(j) ==
    /\ pc[j] = "recode"
    /\ \E o \in Outcomes :
          /\ Required(j, o, IF loc[j].fmt = "mp4" THEN "popen" ELSE "palette")
          /\ Ran(j, "recode", o = "ok")
    /\ resp' = NoResp
    /\ UNCHANGED << job_store, job_store_lock, params >>

\* lines 132-139
Palette(j) ==
    /\ pc[j] = "palette"
    /\ \E o \in Outcomes :
          /\ Required(j, o, "popen")
          /\ Ran(j, "palette", o = "ok")
    /\ resp' = NoResp
    /\ UNCHANGED << job_store, job_store_lock, params >>

(* ---------------------- run_ffmpeg_with_progress ---------------------- *)

\* a line of ffmpeg's stderr: without "time=", with a marker that is not
\* HH:MM:SS (time=N/A), or with time=hh:mm:ss (ss in tenths of a second)
OtherLine == [kind |-> "other", hh |-> 0, mm |-> 0, ss |-> 0]
NaLine == [kind |-> "na", hh |-> 0, mm |-> 0, ss |-> 0]
TimeLine(hh, mm, ss) == [kind |-> "time", hh |-> hh, mm |-> mm, ss |-> ss]

StderrLines ==
    {OtherLine, NaLine, TimeLine(0, 0, 2), TimeLine(0, 0, 300), TimeLine(0, 1, 100)}

\* wall-clock seconds since the launch, as time.time() reports them (the
\* system clock may be set back while the process runs)
Elapsed == {-1, 3}

\* exit codes of the encoder
ExitCodes == {0, 1}

\* lines 33-36: the line carries a marker that splits into three numbers
Parseable(line) == line.kind = "time"

\* line 37, in tenths of a second
Seconds(line) == line.hh * 36000 + line.mm * 600 + line.ss

\* line 38: the floor of 1.0 second under the duration
MinDuration == 10

\* variant: the duration argument is the denominator, without the floor
PercentOfArgument(now, duration_seconds) ==
    PyMin(Cap, PyMax(Zero, Rat(now * 100, duration_seconds)))

\* line 38
Percent(now, duration_seconds) ==
    PyMin(Cap, PyMax(Zero, Rat(now * 100, IntMax(MinDuration, duration_seconds))))

\* variant: the estimate is not floored at 0.0
EtaValueUnfloored(pct, elapsed) ==
    Rat(elapsed * (100 * pct.d - pct.n), pct.n)

\* line 42: max(0.0, elapsed * (100.0 / pct - 1.0))
EtaValue(pct, elapsed) ==
    PyMax(Zero, Rat(elapsed * (100 * pct.d - pct.n), pct.n))

\* lines 40-42
Eta(pct, elapsed) ==
    IF RLess(Half, pct) THEN Some(EtaValue(pct, elapsed)) ELSE None

\* line 24: the process is launched, or Popen raises
Popen(j) ==
    /\ pc[j] = "popen"
    /\ \/ /\ Goto(j, "readline")
          /\ loc' = [loc EXCEPT ![j].proc = Running]
          /\ UNCHANGED trace
       \/ /\ Raise(j, FileNotFoundMsg)
          /\ Ran(j, "encode", FALSE)
    /\ resp' = NoResp
    /\ UNCHANGED << job_store, job_store_lock, params >>

\* the encoder exits with a code; what it wrote to stderr before stays in
\* the pipe until it is read
ProcExits(j, rc) ==
    /\ loc[j].proc = Running
    /\ loc' = [loc EXCEPT ![j].proc = Exited(rc), ![j].dropped = FALSE]
    /\ resp' = NoResp
    /\ UNCHANGED << job_store, job_store_lock, pc, params, trace >>

\* lines 28-32: readline returns nothing and poll() is None (the stream is
\* closed or empty, the process still runs): the loop goes round
RunnerSpin(j) ==
    /\ pc[j] = "readline"
    /\ loc[j].proc = Running
    /\ loc' = [loc EXCEPT ![j].dropped = FALSE]
    /\ resp' = NoResp
    /\ UNCHANGED << job_store, job_store_lock, pc, params, trace >>

\* variant: no try/except around the parse, the error leaves the loop
RunnerIgnoreAborts(j, line) ==
    /\ pc[j] = "readline"
    /\ ~Parseable(line)
    /\ Raise(j, ValueErrorMsg)
    /\ resp' = NoResp
    /\ UNCHANGED << job_store, job_store_lock, params, trace >>

\* lines 28-36, 48-49: a line without a marker, or one whose marker does
\* not parse, is dropped and the loop goes on
RunnerIgnore(j, line) ==
    /\ pc[j] = "readline"
    /\ ~Parseable(line)
    /\ loc' = [loc EXCEPT ![j].dropped = TRUE]
    /\ resp' = NoResp
    /\ UNCHANGED << job_store, job_store_lock, pc, params, trace >>

\* lines 33-46: pct and eta are computed, the lock taken, progress written
RunnerProgress(j, line, elapsed) ==
    LET pct == Percent(Seconds(line), loc[j].seg_len) IN
    /\ pc[j] = "readline"
    /\ Parseable(line)
    /\ LockFree
    /\ job_store_lock' = {j}
    /\ loc' = [loc EXCEPT ![j].pct = pct, ![j].eta = Eta(pct, elapsed),
                           ![j].dropped = FALSE]
    /\ Store(j, "progress", pct)
    /\ Goto(j, "write_eta")
    /\ resp' = NoResp
    /\ UNCHANGED << params, trace >>

\* line 47, and the lock released
RunnerWriteEta(j) ==
    /\ pc[j] = "write_eta"
    /\ Store(j, "eta", loc[j].eta)
    /\ job_store_lock' = {}
    /\ loc' = [loc EXCEPT ![j].pct = Zero, ![j].eta = None]
    /\ Goto(j, "readline")
    /\ resp' = NoResp
    /\ UNCHANGED << params, trace >>

\* variant: the loop is left at the first empty read, poll() is not asked
RunnerExitEarly(j, rc) ==
    /\ pc[j] = "readline"
    /\ loc' = [loc EXCEPT ![j].rc = rc, ![j].seg_len = 0,
                           ![j].proc = NoProc, ![j].dropped = FALSE]
    /\ Goto(j, "returned")
    /\ resp' = NoResp
    /\ UNCHANGED << job_store, job_store_lock, params, trace >>

\* lines 29-31, 50-51: end of stream and the process has exited with rc
RunnerExit(j, rc) ==
    /\ pc[j] = "readline"
    /\ loc[j].proc = Exited(rc)
    /\ loc' = [loc EXCEPT ![j].rc = rc, ![j].seg_len = 0,
                           ![j].proc = NoProc, ![j].dropped = FALSE]
    /\ Goto(j, "returned")
    /\ resp' = NoResp
    /\ UNCHANGED << job_store, job_store_lock, params, trace >>

(* ------------------- process_video_job, after the run ----------------- *)

ExitMsg(rc) == "ffmpeg exit " \o ToString(rc)

\* lines 128-130, 147-152
EncodeReturned(j) ==
    /\ pc[j] = "returned"
    /\ IF loc[j].rc # 0
       THEN /\ loc' = [loc EXCEPT ![j].exc = Some(ExitMsg(loc[j].rc)), ![j].rc = 0]
            /\ Goto(j, "except")
       ELSE /\ loc' = [loc EXCEPT ![j].rc = 0]
            /\ Goto(j, IF loc[j].fmt # "mp4" /\ loc[j].bounce THEN "bounce" ELSE "done")
    /\ Ran(j, "encode", loc[j].rc = 0)
    /\ resp' = NoResp
    /\ UNCHANGED << job_store, job_store_lock, params >>

\* where the worker goes when gifsicle fails (lines 159-160)
BounceFailed(j) == Goto(j, "done")

\* lines 151-160: gifsicle replaces the file, or fails and is ignored
Bounce(j) ==
    /\ pc[j] = "bounce"
    /\ \E o \in Outcomes :
          /\ IF o = "ok" THEN Goto(j, "done") ELSE BounceFailed(j)
          /\ Ran(j, "bounce", o = "ok")
    /\ resp' = NoResp
    /\ UNCHANGED << job_store, job_store_lock, params, loc >>

\* line 104
FinalOut(j, fmt) ==
    [dir |-> JobDir(j), name |-> IF fmt = "mp4" THEN "result.mp4" ELSE "result.gif"]

\* lines 163-166
DoneStatus(j) ==
    /\ pc[j] = "done"
    /\ LockFree
    /\ job_store_lock' = {j}
    /\ Store(j, "status", "done")
    /\ Goto(j, "done_progress")
    /\ resp' = NoResp
    /\ UNCHANGED << params, loc, trace >>

\* line 167
DoneProgress(j) ==
    /\ pc[j] = "done_progress"
    /\ Store(j, "progress", Hundred)
    /\ Goto(j, "done_eta")
    /\ resp' = NoResp
    /\ UNCHANGED << job_store_lock, params, loc, trace >>

\* line 168
DoneEta(j) ==
    /\ pc[j] = "done_eta"
    /\ Store(j, "eta", Some(Zero))
    /\ Goto(j, "done_output")
    /\ resp' = NoResp
    /\ UNCHANGED << job_store_lock, params, loc, trace >>

\* the thread returns: its params and locals are gone
ThreadEnds(j) ==
    /\ params' = [params EXCEPT ![j] = Form(Absent, Absent, "gif", FALSE)]
    /\ loc' = [loc EXCEPT ![j] = DeadLoc]
    /\ Goto(j, "finished")

\* lines 169-170, and the lock released
DoneOutput(j) ==
    /\ pc[j] = "done_output"
    /\ job_store' = [job_store EXCEPT ![j].output = Some(FinalOut(j, loc[j].fmt)),
                                      ![j].tmpdir = JobDir(j)]
    /\ job_store_lock' = {}
    /\ ThreadEnds(j)
    /\ resp' = NoResp
    /\ UNCHANGED trace

\* lines 172-176
ExceptStatus(j) ==
    /\ pc[j] = "except"
    /\ LockFree
    /\ job_store_lock' = {j}
    /\ Store(j, "status", "error")
    /\ Goto(j, "except_error")
    /\ resp' = NoResp
    /\ UNCHANGED << params, loc, trace >>

\* variant: the handler records the status but drops the message
ExceptErrorNoMessage(j) ==
    /\ pc[j] = "except_error"
    /\ Store(j, "error", None)
    /\ job_store_lock' = {}
    /\ ThreadEnds(j)
    /\ resp' = NoResp
    /\ UNCHANGED trace

\* line 177, and the lock released
ExceptError(j) ==
    /\ pc[j] = "except_error"
    /\ Store(j, "error", loc[j].exc)
    /\ job_store_lock' = {}
    /\ ThreadEnds(j)
    /\ resp' = NoResp
    /\ UNCHANGED trace

(* ------------------------------- pollers ------------------------------ *)

\* variant: an unknown id is answered like a job that is not finished
NotFoundAsNotReady == [error |-> "not_ready"]

NotFound == [error |-> "unknown job"]
NotReady == [error |-> "not_ready"]

\* os.path.basename of an optional path (line 317)
Basename(output) == IF output = None THEN None ELSE Some(output[1].name)

\* variant: the readers do not take the lock
ReaderUnlocked == TRUE

\* the lock discipline of a reader (lines 309, 324)
ReaderMayEnter == LockFree

\* lines 307-319
JobStatus(id) ==
    /\ ReaderMayEnter
    /\ resp' = IF id \notin Known
               THEN [op |-> "job_status", id |-> id, code |-> 404, body |-> NotFound]
               ELSE [op |-> "job_status", id |-> id, code |-> 200,
                     body |-> [status |-> job_store[id].status,
                               progress |-> job_store[id].progress,
                               eta |-> job_store[id].eta,
                               output |-> Basename(job_store[id].output),
                               error |-> job_store[id].error]]
    /\ UNCHANGED << job_store, job_store_lock, pc, params, loc, trace >>

\* line 328
Ready(job) == job.status = "done" /\ job.output # None

\* lines 322-330
JobOutput(id) ==
    /\ ReaderMayEnter
    /\ resp' = IF id \notin Known
               THEN [op |-> "job_output", id |-> id, code |-> 404, body |-> NotFound]
               ELSE IF ~Ready(job_store[id])
               THEN [op |-> "job_output", id |-> id, code |-> 400, body |-> NotReady]
               ELSE [op |-> "job_output", id |-> id, code |-> 200,
                     body |-> [file |-> job_store[id].output[1]]]
    /\ UNCHANGED << job_store, job_store_lock, pc, params, loc, trace >>

(* ------------------- generate, single-image requests ----------------- *)

\* int(x) of gif_maker.py line 253, for x = tenths / 10: truncation
\* towards zero
Trunc(tenths) == IF tenths >= 0 THEN tenths \div 10 ELSE -((-tenths) \div 10)

\* round(x) of Python for x = tenths / 10: to the nearest integer, a tie
\* to the even one
PyRound(tenths) ==
    LET lo == tenths \div 10
        r == tenths % 10
    IN IF r < 5 THEN lo
       ELSE IF r > 5 THEN lo + 1
       ELSE IF lo % 2 = 0 THEN lo ELSE lo + 1

\* gif_maker.py line 253
MinFrames == 3

\* variant: the product is rounded
TotalFramesRounded(duration, fps) == IntMax(MinFrames, PyRound(duration * fps))

\* gif_maker.py line 253: total_frames, duration in tenths of a second
TotalFrames(duration, fps) == IntMax(MinFrames, Trunc(duration * fps))

\* the durations and frame rates of the single-image requests
FormDurations == 0 .. 31
FormFps == {0, 1, 2, 3, 10, 15}

\* flask_app.py lines 182-259 in mode "single", with gif_maker.py lines
\* 253-254 and 276-318: one frame is appended per index below total_frames
\* and the GIF of these frames is sent; fps = 0 raises at line 254 and is
\* answered 500.  The route does not touch the job store.
Generate(duration, fps) ==
    /\ resp' = IF fps = 0
               THEN [op |-> "generate", duration |-> duration, fps |-> fps,
                     code |-> 500, frames |-> 0]
               ELSE [op |-> "generate", duration |-> duration, fps |-> fps,
                     code |-> 200, frames |-> TotalFrames(duration, fps)]
    /\ UNCHANGED << job_store, job_store_lock, pc, params, loc, trace >>

(* --------------------------- specifications --------------------------- *)

Worker(j, durations) ==
    \/ MarkRunning(j) \/ ResetProgress(j) \/ ResetEta(j)
    \/ ParseParams(j) \/ ProbeDuration(j, durations) \/ Segment(j)
    \/ Recode(j) \/ Palette(j) \/ Popen(j)
    \/ \E rc \in ExitCodes : ProcExits(j, rc)
    \/ RunnerSpin(j)
    \/ \E line \in StderrLines : RunnerIgnore(j, line)
    \/ \E line \in StderrLines, e \in Elapsed : RunnerProgress(j, line, e)
    \/ RunnerWriteEta(j)
    \/ \E rc \in ExitCodes : RunnerExit(j, rc)
    \/ EncodeReturned(j) \/ Bounce(j)
    \/ DoneStatus(j) \/ DoneProgress(j) \/ DoneEta(j) \/ DoneOutput(j)
    \/ ExceptStatus(j) \/ ExceptError(j)

Poll == \E id \in PollIds : JobStatus(id) \/ JobOutput(id)

\* any number of clients, up to MaxJobs submissions, small requests
Next ==
    \/ \E j \in JobIds, form \in SmallForms : GenerateAsyncCreate(j, form)
    \/ \E j \in JobIds : GenerateAsyncStart(j)
    \/ \E j \in JobIds : Worker(j, SmallProbes)
    \/ Poll

Spec == Init /\ [][Next]_vars

\* one submission, drawn from the wide range of trim requests
NextOne ==
    \/ \E form \in RichForms : GenerateAsyncCreate(1, form)
    \/ GenerateAsyncStart(1)
    \/ Worker(1, RichProbes)
    \/ Poll

SpecOne == Init /\ [][NextOne]_vars

\* the synchronous route alone
NextFrames == \E duration \in FormDurations, fps \in FormFps : Generate(duration, fps)

SpecFrames == Init /\ [][NextFrames]_vars

\* the steps of worker j that wait for nothing
LocalSteps(j) ==
    \/ ResetProgress(j) \/ ResetEta(j) \/ ParseParams(j)
    \/ ProbeDuration(j, SmallProbes) \/ Segment(j)
    \/ Recode(j) \/ Palette(j) \/ Popen(j) \/ RunnerWriteEta(j)
    \/ EncodeReturned(j) \/ Bounce(j)
    \/ DoneProgress(j) \/ DoneEta(j) \/ DoneOutput(j) \/ ExceptError(j)

\* the steps of worker j that wait for the lock
LockSteps(j) == MarkRunning(j) \/ DoneStatus(j) \/ ExceptStatus(j)

\* fair scheduling of the threads: a started thread runs, a thread that
\* can step does, a thread that waits for the lock gets it when it is free
\* again and again; and the environment: a launched encoder exits, and the
\* lines left in its pipe are finitely many, so the end of the stream is
\* read
Fair(j) ==
    /\ WF_vars(GenerateAsyncStart(j))
    /\ WF_vars(LocalSteps(j))
    /\ SF_vars(LockSteps(j))
    /\ WF_vars(\E rc \in ExitCodes : ProcExits(j, rc))
    /\ SF_vars(\E rc \in ExitCodes : RunnerExit(j, rc))

\* the requests of the fair specification
LiveForms ==
    { Form(Absent, Absent, "gif", TRUE),
      Form(Text, Absent, "gif", FALSE) }

NextLive ==
    \/ \E j \in JobIds, form \in LiveForms : GenerateAsyncCreate(j, form)
    \/ \E j \in JobIds : GenerateAsyncStart(j)
    \/ \E j \in JobIds : Worker(j, SmallProbes)

SpecLive == Init /\ [][NextLive]_vars /\ \A j \in JobIds : Fair(j)

(* ------------------------------- claims ------------------------------- *)

RLeq(a, b) == ~RLess(b, a)

Terminal(j) == job_store[j].status \in {"done", "error"}

\* the worker of j is inside one of its "with job_store_lock" blocks
Writing(j) == j \in job_store_lock

Finished(j) == pc[j] = "finished"

StatusEdges ==
    { << "queued", "running" >>, << "running", "done" >>, << "running", "error" >> }

\* C1: a record enters the store as queued and is never removed; its status
\* changes only along queued -> running -> done or queued -> running ->
\* error; the step that marks it running finds it queued; and once the
\* terminal transition is complete (status done or error and the worker out
\* of its locked block) no step changes any field of the record.
C1_Lifecycle ==
    [][ \A j \in JobIds :
          /\ j \in Known => j \in DOMAIN job_store'
          /\ (j \notin Known /\ j \in DOMAIN job_store') =>
                job_store'[j].status = "queued"
          /\ (j \in Known /\ job_store'[j].status # job_store[j].status) =>
                << job_store[j].status, job_store'[j].status >> \in StatusEdges
          /\ (pc[j] = "start" /\ pc'[j] # "start") =>
                job_store[j].status = "queued"
          /\ (j \in Known /\ Terminal(j) /\ ~Writing(j)) =>
                job_store'[j] = job_store[j]
      ]_vars

\* two jobs have run to the end, one to done and one to error
C1_Witness ==
    \E j, k \in Known :
        /\ Finished(j) /\ job_store[j].status = "done"
        /\ Finished(k) /\ job_store[k].status = "error"

\* C2: in every state of a record that another thread can see (its worker
\* is not inside a locked block), output is set exactly when status is done
\* and error is set, to a non-empty message, exactly when status is error;
\* so never both, exactly one in a terminal state, none in queued/running.
C2_OutputXorError ==
    \A j \in Known :
        ~Writing(j) =>
            /\ job_store[j].output # None <=> job_store[j].status = "done"
            /\ job_store[j].error # None <=> job_store[j].status = "error"
            /\ job_store[j].error # None => job_store[j].error[1] # ""

\* a job in error with its message, while another is running with neither
C2_Witness ==
    \E j, k \in Known :
        /\ job_store[j].status = "error" /\ job_store[j].error # None
        /\ job_store[j].output = None /\ ~Writing(j)
        /\ job_store[k].status = "running" /\ ~Writing(k)

\* C3 (as claimed): during a run of run_ffmpeg_with_progress no step lowers
\* the job's progress, and no step leaves it above 99.9.
C3_MonotoneProgress ==
    [][ \A j \in Known :
          pc[j] \in {"readline", "write_eta"} =>
             /\ RLeq(job_store[j].progress, job_store'[j].progress)
             /\ RLeq(job_store'[j].progress, Cap)
      ]_vars

\* C4: progress is 100.0 only in a record whose status is done (in every
\* state, the worker's locked blocks included); and in every state another
\* thread can see, a done record has progress 100.0, eta 0 and its output,
\* and any other record has 0.0 <= progress < 100.0.
C4_HundredIffDone ==
    \A j \in Known :
        /\ job_store[j].progress = Hundred => job_store[j].status = "done"
        /\ ~Writing(j) =>
              IF job_store[j].status = "done"
              THEN /\ job_store[j].progress = Hundred
                   /\ job_store[j].eta = Some(Zero)
                   /\ job_store[j].output # None
              ELSE /\ RLeq(Zero, job_store[j].progress)
                   /\ RLess(job_store[j].progress, Hundred)

\* a job is done at 100.0 while another, in error, keeps the 99.9 it had
C4_Witness ==
    \E j, k \in Known :
        /\ job_store[j].status = "done" /\ job_store[j].progress = Hundred
        /\ ~Writing(j)
        /\ job_store[k].status = "error" /\ job_store[k].progress = Cap

\* C5: in every state of a record that a status poll can see, eta is absent
\* when progress <= 0.5 and present and >= 0 when progress > 0.5.
C5_EtaThreshold ==
    \A j \in Known :
        ~Writing(j) =>
            IF RLeq(job_store[j].progress, Half)
            THEN job_store[j].eta = None
            ELSE /\ job_store[j].eta # None
                 /\ RLeq(Zero, job_store[j].eta[1])

\* a running job reports a progress in (0, 0.5] without eta, while another
\* has ended in error above the threshold with the eta it had
C5_Witness ==
    \E j, k \in Known :
        /\ job_store[j].status = "running" /\ ~Writing(j)
        /\ RLess(Zero, job_store[j].progress)
        /\ RLeq(job_store[j].progress, Half)
        /\ job_store[j].eta = None
        /\ job_store[k].status = "error" /\ ~Writing(k)
        /\ RLess(Half, job_store[k].progress)
        /\ job_store[k].eta # None

\* the answer of the last step is a job_status or job_output answer for a
\* known job
Answered(op) == resp.op = op /\ resp.code = 200

\* C6: at most one thread is inside a locked block, and a worker is inside
\* one exactly between the first and the last write of an update; a poll
\* is answered from a record no writer is in the middle of: the answer
\* equals the stored record, is never queued with a progress or eta, never
\* a new progress with the old eta (eta is absent exactly when progress is
\* at most 0.5), never done with progress below 100 or without output.
C6_NoTornRead ==
    /\ Cardinality(job_store_lock) <= 1
    /\ \A j \in JobIds :
          pc[j] \in {"reset_progress", "reset_eta", "write_eta", "done_progress",
                     "done_eta", "done_output", "except_error"} <=> Writing(j)
    /\ Answered("job_status") =>
          LET b == resp.body
              r == job_store[resp.id]
          IN /\ ~Writing(resp.id)
             /\ b.status = r.status /\ b.progress = r.progress
             /\ b.eta = r.eta /\ b.error = r.error
             /\ b.output = Basename(r.output)
             /\ b.status = "queued" => b.progress = Zero /\ b.eta = None
             /\ b.status = "done" =>
                   b.progress = Hundred /\ b.eta = Some(Zero) /\ b.output # None
             /\ b.status = "error" => b.error # None /\ b.output = None
             /\ b.eta = None <=> RLeq(b.progress, Half)
    /\ Answered("job_output") =>
          /\ ~Writing(resp.id)
          /\ job_store[resp.id].status = "done"
          /\ job_store[resp.id].output = Some(resp.body.file)

\* a poll of a running job is answered with its progress while the worker
\* of another job is about to write
C6_Witness ==
    /\ Answered("job_status")
    /\ resp.body.status = "running"
    /\ RLess(Zero, resp.body.progress)
    /\ \E k \in Known : k # resp.id /\ pc[k] = "readline"

Polled == resp.op \in {"job_status", "job_output"}

\* C7: a poll for an id that is not in the store is answered "unknown job"
\* (404) by both routes; a poll for an id in the store never is; and
\* job_output answers with the file exactly when status is done, the file
\* being the stored output, and with "not_ready" (400) in every other status.
C7_UnknownVsNotReady ==
    Polled =>
        /\ resp.id \notin Known => resp.code = 404 /\ resp.body = NotFound
        /\ resp.id \in Known => resp.code # 404 /\ resp.body # NotFound
        /\ (resp.id \in Known /\ resp.op = "job_output") =>
              IF job_store[resp.id].status = "done"
              THEN /\ resp.code = 200
                   /\ job_store[resp.id].output = Some(resp.body.file)
              ELSE resp.code = 400 /\ resp.body = NotReady
        /\ NotFound # NotReady

\* job_output is asked for a job that ended in error and answers not_ready,
\* while the other id is still unknown
C7_Witness ==
    /\ resp.op = "job_output"
    /\ resp.id \in Known
    /\ job_store[resp.id].status = "error"
    /\ resp.code = 400
    /\ \E k \in JobIds : k \notin Known

RequiredSteps == {"recode", "palette", "encode"}

\* the i-th external step of job j was a required one and failed
FailedAt(j, i) == trace[j][i].step \in RequiredSteps /\ ~trace[j][i].ok

FailedRequired(j) == \E i \in 1 .. Len(trace[j]) : FailedAt(j, i)

\* C8: once a required step (re-encode, palette, final encode) has exited
\* non-zero or could not be launched, it is the last external step the
\* worker runs, the worker is in or past its exception handler, the record
\* never becomes done and never gets an output, and the thread ends with
\* status error and a non-empty message.
C8_RequiredFailureAborts ==
    \A j \in JobIds :
        FailedRequired(j) =>
            /\ \A i \in 1 .. Len(trace[j]) : FailedAt(j, i) => i = Len(trace[j])
            /\ pc[j] \in {"except", "except_error", "finished"}
            /\ job_store[j].status # "done"
            /\ job_store[j].output = None
            /\ Finished(j) =>
                  /\ job_store[j].status = "error"
                  /\ job_store[j].error # None
                  /\ job_store[j].error[1] # ""

\* a GIF job whose palette generation failed after a good re-encode has
\* ended in error
C8_Witness ==
    \E j \in Known :
        /\ Finished(j)
        /\ Len(trace[j]) = 3
        /\ trace[j][2] = [step |-> "recode", ok |-> TRUE]
        /\ trace[j][3] = [step |-> "palette", ok |-> FALSE]
        /\ job_store[j].status = "error"

ProbeFell(j) == Len(trace[j]) >= 1 /\ trace[j][1] = [step |-> "probe", ok |-> FALSE]

BounceFell(j) ==
    Len(trace[j]) >= 1 /\ trace[j][Len(trace[j])] = [step |-> "bounce", ok |-> FALSE]

\* C9: after a failed probe the worker goes on to the segment with
\* total_dur = 60.0 and the job still running; after a failed bounce the
\* worker goes on to the done transition and ends done with the GIF of the
\* encode as output; and a thread that has run external steps none of
\* which was a failed required one ends done.
C9_AdvisoryFailuresIgnored ==
    \A j \in JobIds :
        /\ (ProbeFell(j) /\ Len(trace[j]) = 1) =>
              /\ pc[j] \in {"segment", "recode"}
              /\ loc[j].total_dur = 600
              /\ job_store[j].status = "running"
        /\ BounceFell(j) =>
              /\ pc[j] \in {"done", "done_progress", "done_eta", "done_output",
                            "finished"}
              /\ Finished(j) =>
                    /\ job_store[j].status = "done"
                    /\ job_store[j].output = Some(FinalOut(j, "gif"))
        /\ (Finished(j) /\ trace[j] # << >> /\ ~FailedRequired(j)) =>
              job_store[j].status = "done"

\* a job whose probe and whose bounce both failed has ended done
C9_Witness ==
    \E j \in Known :
        /\ Finished(j)
        /\ ProbeFell(j)
        /\ BounceFell(j)
        /\ job_store[j].status = "done"

\* the start and the end of the request as numbers: start is 0.0 when not
\* sent; an end is given when a number was sent
RequestedStart(j) == IF params[j].start.kind = "num" THEN params[j].start.v ELSE 0
EndGiven(j) == params[j].end.kind = "num"

\* C10: when the worker has computed the segment, its length is
\* end - start if that is at least 0.1 and 0.1 otherwise, where end is the
\* requested end if it is given and below the duration, and the probed or
\* fallback duration otherwise; so it is at least 0.1.
C10_SegmentLength ==
    \A j \in JobIds :
        pc[j] = "recode" =>
            LET d == loc[j].total_dur
                e == IF EndGiven(j) /\ params[j].end.v < d THEN params[j].end.v ELSE d
                len == e - RequestedStart(j)
            IN /\ loc[j].seg_len >= 1
               /\ len >= 1 => loc[j].seg_len = len
               /\ len < 1 => loc[j].seg_len = 1

\* the floor is used: a segment was computed for a start and a requested
\* end that both lie beyond the duration
C10_Witness ==
    \E j \in JobIds :
        /\ pc[j] = "recode"
        /\ EndGiven(j)
        /\ params[j].end.v > loc[j].total_dur
        /\ RequestedStart(j) > loc[j].total_dur
        /\ loc[j].seg_len = 1

\* the step in which worker j handles the stderr line it has read
Handles(j, line) ==
    \/ RunnerIgnore(j, line)
    \/ \E e \in Elapsed : RunnerProgress(j, line, e)

\* the media time of a marker, in tenths of a second
MarkerTime(line) == (line.hh * 60 + line.mm) * 600 + line.ss

\* min(99.9, max(0, x))
Clamped(x) == IF RLess(x, Zero) THEN Zero ELSE IF RLess(Cap, x) THEN Cap ELSE x

\* C11 (as claimed): for every line with a parseable marker the percent
\* written is clamp(0, 99.9, elapsed / duration * 100), the duration being
\* the argument of run_ffmpeg_with_progress itself.
C11_PercentOfArgument ==
    [][ \A j \in JobIds, line \in StderrLines :
          (line.kind = "time" /\ Handles(j, line)) =>
             job_store'[j].progress =
                Clamped(Rat(MarkerTime(line) * 100, loc[j].seg_len))
      ]_vars

\* C11 (amended): for every line with a parseable marker the percent
\* written is clamp(0, 99.9, elapsed / d * 100) where d is the duration
\* argument, or 1.0 second when the argument is below 1.0.
C11_PercentOfFlooredDuration ==
    [][ \A j \in JobIds, line \in StderrLines :
          (line.kind = "time" /\ Handles(j, line)) =>
             LET d == IF loc[j].seg_len < 10 THEN 10 ELSE loc[j].seg_len
             IN job_store'[j].progress = Clamped(Rat(MarkerTime(line) * 100, d))
      ]_vars

\* a marker of 0.2 s in a run over a segment shorter than a second has
\* been written as 20 percent
C11_Witness ==
    \E j \in Known :
        /\ pc[j] = "write_eta"
        /\ loc[j].seg_len < 10
        /\ job_store[j].progress = Rat(20, 1)

\* the answer of the last step is the GIF of a single-image request
Generated == resp.op = "generate" /\ resp.code = 200

\* C12 (as claimed): the GIF of a single-image request has
\* max(3, round(duration * fps)) frames.
C12_FramesRounded ==
    Generated =>
        resp.frames = IF PyRound(resp.duration * resp.fps) > 3
                      THEN PyRound(resp.duration * resp.fps) ELSE 3

\* C12 (amended): the GIF has max(3, n) frames where n is duration * fps
\* truncated to an integer: at least 3 frames, exactly 3 when the product
\* is below 4, and otherwise the n with n <= duration * fps < n + 1.
C12_FramesTruncated ==
    Generated =>
        LET tenths == resp.duration * resp.fps
        IN /\ resp.frames >= 3
           /\ resp.frames = 3 <=> tenths < 40
           /\ resp.frames > 3 =>
                 /\ 10 * resp.frames <= tenths
                 /\ tenths < 10 * (resp.frames + 1)

\* duration 2.5 s at 3 fps, a product of 7.5, was answered with 7 frames
C12_Witness ==
    /\ Generated
    /\ resp.duration = 25
    /\ resp.fps = 3
    /\ resp.frames = 7

\* C13: under fair scheduling, with every launched encoder exiting, every
\* job in the store eventually has its thread ended with status done or
\* error; and run_ffmpeg_with_progress returns only when the process has
\* exited, with the code the process exited with.
C13_EveryJobEnds ==
    /\ \A j \in JobIds : (j \in Known) ~> (Finished(j) /\ Terminal(j))
    /\ [][ \A j \in JobIds :
             (pc[j] = "readline" /\ pc'[j] = "returned") =>
                /\ loc[j].proc # Running
                /\ loc[j].proc = Exited(loc'[j].rc)
         ]_vars

\* every job that was submitted has ended, one of them done after its
\* encoder exited with 0
C13_Witness ==
    /\ Known = JobIds
    /\ \A j \in JobIds : Finished(j) /\ Terminal(j)
    /\ \E j \in JobIds :
          /\ job_store[j].status = "done"
          /\ \E i \in 1 .. Len(trace[j]) : trace[j][i] = [step |-> "encode", ok |-> TRUE]

\* C14: the step that handles a stderr line without a time marker, or
\* with a marker that is not HH:MM:SS, changes no job record, leaves the
\* lock and the process alone and keeps the worker in the read loop; and a
\* run that ends right after such a line returns the code the process
\* exited with.
C14_DroppedLineIsNoOp ==
    [][ \A j \in JobIds :
          /\ \A line \in StderrLines :
                (line.kind \in {"other", "na"} /\ Handles(j, line)) =>
                   /\ job_store' = job_store
                   /\ job_store_lock' = job_store_lock
                   /\ pc'[j] = "readline"
                   /\ loc'[j].proc = loc[j].proc
                   /\ loc'[j].exc = loc[j].exc
          /\ (loc[j].dropped /\ pc'[j] # pc[j]) =>
                \/ pc'[j] = "write_eta"
                \/ pc'[j] = "returned" /\ loc[j].proc = Exited(loc'[j].rc)
      ]_vars

\* the worker has just dropped a line that was left in the pipe of an
\* exited encoder, and the record still shows the progress and the eta of
\* an earlier line
C14_Witness ==
    \E j \in Known :
        /\ pc[j] = "readline"
        /\ loc[j].dropped
        /\ loc[j].proc = Exited(0)
        /\ job_store[j].status = "running"
        /\ RLess(Half, job_store[j].progress)
        /\ job_store[j].eta # None

\* the thread of j exists: generate_async has started it
Started(j) == pc[j] \notin {"unborn", "created"}

\* C15: a step of the worker of j leaves the set of ids and the records of
\* all other ids as they are; a record changes only in a step of its own
\* worker; an id enters the store only in generate_async, alone, with the
\* queued record, before its thread exists; and the thread is started for
\* an id whose queued record is in the store.
C15_WorkerWritesOwnRecord ==
    [][ \A j \in JobIds :
          /\ (Started(j) /\ pc'[j] # pc[j]) =>
                /\ DOMAIN job_store' = Known
                /\ \A k \in Known \ {j} : job_store'[k] = job_store[k]
          /\ (j \in Known /\ job_store'[j] # job_store[j]) =>
                Started(j) /\ pc'[j] # pc[j]
          /\ (j \notin Known /\ j \in DOMAIN job_store') =>
                /\ pc[j] = "unborn" /\ pc'[j] = "created"
                /\ DOMAIN job_store' = Known \cup {j}
                /\ job_store'[j] = QueuedRecord(j)
                /\ \A k \in Known : job_store'[k] = job_store[k]
          /\ (~Started(j) /\ pc'[j] = "start") =>
                j \in Known /\ job_store[j] = QueuedRecord(j)
      ]_vars

\* one worker is in the middle of a progress update while the record of
\* the other job, whose thread has been started, is still as queued
C15_Witness ==
    \E j, k \in Known :
        /\ j # k
        /\ pc[j] = "write_eta"
        /\ RLess(Zero, job_store[j].progress)
        /\ pc[k] = "start"
        /\ job_store[k] = QueuedRecord(k)

====
